---- MODULE Spec2Model ----
(***************************************************************************)
(* Phantom text coordinate mapping of the floem editor                     *)
(* (src/src/views/editor/phantom_text.rs).                                 *)
(*                                                                         *)
(* A PhantomTextLine is built from one origin line and its phantom texts;  *)
(* a PhantomTextMultiLine is the rendered row made of the first line and   *)
(* the lines merged into it through folds.  The queries translate between  *)
(* origin (line, col), merge column and final column.                      *)
(*                                                                         *)
(* usize values are modelled by integers.  A usize subtraction that would  *)
(* go below zero panics in a build with overflow checks and wraps in a     *)
(* build without them; the wrapped value 2^64 - k is written -k.           *)
(***************************************************************************)
EXTENDS Integers, Sequences, FiniteSets, TLC

\* ------------------------------------------------------------ bounds
\* longest origin line (origin_text_len ranges over 0..MaxOriginLen)
MaxOriginLen == 2
\* most phantom texts handed to PhantomTextLine::new for one line
MaxSpans == 2
\* length of a phantom text that is not empty
MaxTextLen == 2
\* most origin lines merged into one row
MaxLines == 2
\* most phantom texts in one row
MaxRowSpans == 3
\* the largest cache_rev of a document
MaxRev == 2
\* the last line of the longest document
MaxDocLine == 2
\* the ids Id::next hands out
MaxIds == 3
\* the effects that subscribe to signals
MaxEffects == 1
\* the ids handed out before the view effects of an editor are no longer made again
MaxEditorIds == 36

\* ------------------------------------------------------------ data model
\* Option::None of an Option<usize>; None < Some(n) as in Rust's derived Ord
None == -1

\* PhantomTextKind, numbered in declaration order (the derived Ord)
Ime == 0
Placeholder == 1
Completion == 2
InlayHint == 3
Diagnostic == 4
LineFoldedRang == 5

PhantomTextKind == {Ime, Placeholder, Completion, InlayHint, Diagnostic, LineFoldedRang}

\* struct PhantomText.  next_line and len are the fields of the
\* LineFoldedRang variant (None and 0 for the other kinds); text is a
\* sequence of characters.
PhantomText(kind, next_line, len, line, col, merge_col, final_col, text) ==
    [kind |-> kind, next_line |-> next_line, len |-> len, line |-> line,
     col |-> col, merge_col |-> merge_col, final_col |-> final_col, text |-> text]

\* lapce_xi_rope::Interval, the half-open range [start, end)
Interval(start, end) == [start |-> start, end |-> end]

Interval_contains(iv, val) == iv.start <= val /\ val < iv.end

\* translate that moves the start only
Interval_translate_start(iv, amount) == Interval(iv.start + amount, iv.end)

Interval_translate(iv, amount) == Interval(iv.start + amount, iv.end + amount)

\* struct OriginText
OriginText(line, col, merge_col, final_col) ==
    [line |-> line, col |-> col, merge_col |-> merge_col, final_col |-> final_col]

\* enum Text { Phantom { text }, OriginText { text }, Empty }
Text_Phantom(p) == [tag |-> "Phantom", text |-> p]

Text_OriginText(o) == [tag |-> "OriginText", text |-> o]

IsPhantom(t) == t.tag = "Phantom"

IsOriginText(t) == t.tag = "OriginText"

\* ------------------------------------------------------------ PhantomText
next_line(p) == IF p.kind = LineFoldedRang THEN p.next_line ELSE None

\* Some((start, end)) as <<start, end>>, None as <<>>
final_col_range(p) ==
    IF Len(p.text) = 0 THEN <<>>
    ELSE <<p.final_col, p.final_col + Len(p.text) - 1>>

next_final_col(p) ==
    IF final_col_range(p) # <<>> THEN final_col_range(p)[2] + 1 ELSE p.final_col

next_origin_col(p) == IF p.kind = LineFoldedRang THEN p.col + p.len ELSE p.col

next_merge_col(p) == IF p.kind = LineFoldedRang THEN p.merge_col + p.len ELSE p.merge_col

\* ------------------------------------------------------------ Text::merge_to
\* merge_to that shifts the merge column by the final length and the final
\* column by the origin length
merge_to_swapped(t, origin_text_len, final_text_len) ==
    IF IsPhantom(t)
    THEN Text_Phantom([t.text EXCEPT !.merge_col = @ + final_text_len,
                                     !.final_col = @ + origin_text_len])
    ELSE IF IsOriginText(t)
    THEN Text_OriginText([t.text EXCEPT
             !.merge_col = Interval_translate(@, final_text_len),
             !.final_col = Interval_translate(@, origin_text_len)])
    ELSE t

merge_to(t, origin_text_len, final_text_len) ==
    IF IsPhantom(t)
    THEN Text_Phantom([t.text EXCEPT !.merge_col = @ + origin_text_len,
                                     !.final_col = @ + final_text_len])
    ELSE IF IsOriginText(t)
    THEN Text_OriginText([t.text EXCEPT
             !.merge_col = Interval_translate(@, origin_text_len),
             !.final_col = Interval_translate(@, final_text_len)])
    ELSE t

\* ------------------------------------------------------------ sorting
\* Ordering of two values: -1 Less, 0 Equal, 1 Greater
cmp(a, b) == IF a < b THEN -1 ELSE IF a = b THEN 0 ELSE 1

\* #[derive(Ord)] of PhantomTextKind: the variant first, then the fields of
\* LineFoldedRang in declaration order (next_line, len)
kind_cmp(a, b) ==
    IF a.kind # b.kind THEN cmp(a.kind, b.kind)
    ELSE IF a.kind # LineFoldedRang THEN 0
    ELSE IF a.next_line # b.next_line THEN cmp(a.next_line, b.next_line)
    ELSE cmp(a.len, b.len)

\* the comparator without the comparison of kinds
sort_cmp_by_col(a, b) == cmp(a.merge_col, b.merge_col)

\* the comparator of phantom_texts.sort_by
sort_cmp(a, b) ==
    IF a.merge_col = b.merge_col THEN kind_cmp(a, b) ELSE cmp(a.merge_col, b.merge_col)

\* slice::sort_by is stable: x goes after every element that is not greater
RECURSIVE insert_sorted(_, _)
insert_sorted(s, x) ==
    IF s = <<>> THEN <<x>>
    ELSE IF sort_cmp(s[Len(s)], x) <= 0 THEN Append(s, x)
    ELSE Append(insert_sorted(SubSeq(s, 1, Len(s) - 1), x), s[Len(s)])

\* a sort that leaves the phantom texts in the order given
sort_by_input_order(s) == s

RECURSIVE sort_by(_)
sort_by(s) ==
    IF s = <<>> THEN <<>>
    ELSE insert_sorted(sort_by(SubSeq(s, 1, Len(s) - 1)), s[Len(s)])

\* ------------------------------------------------------------ PhantomTextLine::new
\* usize_offset: val as i32 + offset, with assert!(rs >= 0)
usize_offset_panics(val, offset) == val + offset < 0

usize_offset(val, offset) == val + offset

\* next_offset without the columns a fold consumes
next_offset_without_fold(phantom, offset) == offset + Len(phantom.text)

\* the running offset after a phantom text (the two match arms of the loop)
next_offset(phantom, offset) ==
    IF phantom.kind = LineFoldedRang
    THEN offset + Len(phantom.text) - phantom.len
    ELSE offset + Len(phantom.text)

\* the OriginText pushed for a gap of len characters
gap_text(line, origin_last_end, merge_last_end, final_last_end, len) ==
    Text_OriginText(OriginText(line,
        Interval(origin_last_end, origin_last_end + len),
        Interval(merge_last_end, merge_last_end + len),
        Interval(final_last_end, final_last_end + len)))

\* the local variables of new before the loop
new_start ==
    [panic |-> FALSE, offset |-> 0, final_last_end |-> 0, origin_last_end |-> 0,
     merge_last_end |-> 0, texts |-> <<>>]

\* one iteration of `for mut phantom in phantom_texts`
new_step(acc, ph) ==
    IF acc.panic THEN acc
    ELSE IF usize_offset_panics(ph.merge_col, acc.offset) THEN [acc EXCEPT !.panic = TRUE]
    ELSE LET phantom == [ph EXCEPT !.final_col = usize_offset(ph.merge_col, acc.offset)]
             texts == IF acc.final_last_end < phantom.final_col
                      THEN Append(acc.texts,
                               gap_text(phantom.line, acc.origin_last_end, acc.merge_last_end,
                                        acc.final_last_end,
                                        phantom.final_col - acc.final_last_end))
                      ELSE acc.texts
         IN  [panic |-> FALSE,
              offset |-> next_offset(phantom, acc.offset),
              final_last_end |-> next_final_col(phantom),
              origin_last_end |-> next_origin_col(phantom),
              merge_last_end |-> next_merge_col(phantom),
              texts |-> Append(texts, Text_Phantom(phantom))]

RECURSIVE new_loop(_, _)
new_loop(acc, phantom_texts) ==
    IF phantom_texts = <<>> THEN acc
    ELSE new_loop(new_step(acc, Head(phantom_texts)), Tail(phantom_texts))

\* struct PhantomTextLine; panic marks a construction that aborted
PhantomTextLine(line, offset_of_line, origin_text_len, final_text_len, texts) ==
    [panic |-> FALSE, line |-> line, offset_of_line |-> offset_of_line,
     origin_text_len |-> origin_text_len, final_text_len |-> final_text_len,
     texts |-> texts]

PanicLine ==
    [panic |-> TRUE, line |-> 0, offset_of_line |-> 0, origin_text_len |-> 0,
     final_text_len |-> 0, texts |-> <<>>]

\* the tail without the test of its length
new_tail_any_len(acc, line, origin_text_len) ==
    Append(acc.texts,
        gap_text(line, acc.origin_last_end, acc.merge_last_end, acc.final_last_end,
                 origin_text_len - acc.origin_last_end))

\* the origin text after the last phantom text (len > 0)
new_tail(acc, line, origin_text_len) ==
    LET len == origin_text_len - acc.origin_last_end
    IN  IF len > 0
        THEN Append(acc.texts,
                 gap_text(line, acc.origin_last_end, acc.merge_last_end,
                          acc.final_last_end, len))
        ELSE acc.texts

\* PhantomTextLine::new.  origin_text_len - origin_last_end below zero is a
\* subtraction overflow (a panic with overflow checks).
PhantomTextLine_new(line, origin_text_len, offset_of_line, phantom_texts) ==
    LET acc == new_loop(new_start, sort_by(phantom_texts))
    IN  IF acc.panic THEN PanicLine
        ELSE IF origin_text_len - acc.origin_last_end < 0 THEN PanicLine
        ELSE IF usize_offset_panics(origin_text_len, acc.offset) THEN PanicLine
        ELSE PhantomTextLine(line, offset_of_line, origin_text_len,
                 usize_offset(origin_text_len, acc.offset),
                 new_tail(acc, line, origin_text_len))

\* PhantomTextLine::new in a build with or without overflow checks.  Without
\* them origin_text_len - origin_last_end below zero wraps to a length above
\* zero, and an OriginText with that length is pushed.
PhantomTextLine_new_build(line, origin_text_len, offset_of_line, phantom_texts, overflow_checks) ==
    LET acc == new_loop(new_start, sort_by(phantom_texts))
        len == origin_text_len - acc.origin_last_end
    IN  IF overflow_checks \/ acc.panic \/ len >= 0
        THEN PhantomTextLine_new(line, origin_text_len, offset_of_line, phantom_texts)
        ELSE IF usize_offset_panics(origin_text_len, acc.offset) THEN PanicLine
        ELSE PhantomTextLine(line, offset_of_line, origin_text_len,
                 usize_offset(origin_text_len, acc.offset),
                 Append(acc.texts,
                     gap_text(line, acc.origin_last_end, acc.merge_last_end,
                              acc.final_last_end, len)))

\* PhantomTextLine::folded_line
folded_line(pl) ==
    IF pl.texts # <<>> /\ IsPhantom(pl.texts[Len(pl.texts)])
    THEN next_line(pl.texts[Len(pl.texts)].text)
    ELSE None

\* ------------------------------------------------------------ PhantomTextMultiLine
\* struct PhantomTextMultiLine; len_of_line holds <<line, origin len, final len>>
PhantomTextMultiLine(line, last_line, offset_of_line, origin_text_len, final_text_len, len_of_line, text) ==
    [line |-> line, last_line |-> last_line, offset_of_line |-> offset_of_line,
     origin_text_len |-> origin_text_len, final_text_len |-> final_text_len,
     len_of_line |-> len_of_line, text |-> text]

\* PhantomTextMultiLine::new
PhantomTextMultiLine_new(line) ==
    PhantomTextMultiLine(line.line, line.line, line.offset_of_line,
        line.origin_text_len, line.final_text_len,
        <<<<line.line, line.origin_text_len, line.final_text_len>>>>,
        line.texts)

\* merge that pushes nothing for the line numbers it skips
pad_len_of_line_none(len_of_line, last_len, upto) == len_of_line

\* `for _ in index..line.line-self.line { self.len_of_line.push(last_len) }`
RECURSIVE pad_len_of_line(_, _, _)
pad_len_of_line(len_of_line, last_len, upto) ==
    IF Len(len_of_line) >= upto THEN len_of_line
    ELSE pad_len_of_line(Append(len_of_line, last_len), last_len, upto)

\* every text of the merged line, shifted by the lengths before the merge
merge_texts(texts, origin_text_len, final_text_len) ==
    [i \in 1..Len(texts) |-> merge_to(texts[i], origin_text_len, final_text_len)]

\* merge that shifts the texts already in the row as well
merge_shifting_all(self, line) ==
    LET index == Len(self.len_of_line)
        last_len == self.len_of_line[index]
        padded == pad_len_of_line(self.len_of_line, last_len, line.line - self.line)
    IN  PhantomTextMultiLine(self.line, line.line, self.offset_of_line,
            self.origin_text_len + line.origin_text_len,
            self.final_text_len + line.final_text_len,
            Append(padded, <<line.line, line.origin_text_len, line.final_text_len>>),
            merge_texts(self.text \o line.texts, self.origin_text_len, self.final_text_len))

\* PhantomTextMultiLine::merge (for line.line >= self.line)
merge(self, line) ==
    LET index == Len(self.len_of_line)
        last_len == self.len_of_line[index]
        padded == pad_len_of_line(self.len_of_line, last_len, line.line - self.line)
    IN  PhantomTextMultiLine(self.line, line.line, self.offset_of_line,
            self.origin_text_len + line.origin_text_len,
            self.final_text_len + line.final_text_len,
            Append(padded, <<line.line, line.origin_text_len, line.final_text_len>>),
            self.text \o merge_texts(line.texts, self.origin_text_len, self.final_text_len))

\* PhantomTextMultiLine::update_final_text_len
update_final_text_len(self, len) == [self EXCEPT !.final_text_len = len]

\* ------------------------------------------------------------ queries
\* Iterator::find over the texts, given for every text whether the closure
\* accepts it: the index of the first text accepted, 0 when there is none
find(accepted) ==
    IF \E i \in 1..Len(accepted) : accepted[i]
    THEN CHOOSE i \in 1..Len(accepted) :
             accepted[i] /\ \A j \in 1..i - 1 : ~accepted[j]
    ELSE 0

final_offset_matches(x, final_offset) ==
    IF IsPhantom(x)
    THEN x.text.final_col <= final_offset /\ final_offset < next_final_col(x.text)
    ELSE IF IsOriginText(x) THEN Interval_contains(x.text.final_col, final_offset)
    ELSE FALSE

text_of_final_offset(self, final_offset) ==
    find([i \in 1..Len(self.text) |-> final_offset_matches(self.text[i], final_offset)])

origin_line_col_matches(x, origin_line, origin_col) ==
    IF IsPhantom(x)
    THEN IF x.text.line = origin_line /\ x.text.col <= origin_col
            /\ origin_col < next_origin_col(x.text)
         THEN TRUE
         ELSE next_line(x.text) # None /\ origin_line < next_line(x.text)
    ELSE IF IsOriginText(x)
    THEN x.text.line = origin_line /\ Interval_contains(x.text.col, origin_col)
    ELSE TRUE

text_of_origin_line_col(self, origin_line, origin_col) ==
    find([i \in 1..Len(self.text) |->
              origin_line_col_matches(self.text[i], origin_line, origin_col)])

merge_col_matches(x, merge_col) ==
    IF IsPhantom(x)
    THEN x.text.merge_col <= merge_col /\ merge_col <= next_merge_col(x.text)
    ELSE IF IsOriginText(x) THEN Interval_contains(x.text.merge_col, merge_col)
    ELSE TRUE

text_of_merge_col(self, merge_col) ==
    find([i \in 1..Len(self.text) |-> merge_col_matches(self.text[i], merge_col)])

\* the outcome of a call: a panic, or the returned value
Ok(val) == [panic |-> FALSE, val |-> val]

Panicked == [panic |-> TRUE, val |-> <<>>]

\* a - b on usize: below zero it panics with overflow checks and wraps without
usize_sub(a, b, overflow_checks) ==
    IF a >= b \/ ~overflow_checks THEN Ok(a - b) ELSE Panicked

\* origin_col_of_final_offset: Some((line, col)) as <<line, col>>, None as <<>>
origin_col_of_final_offset(self, final_col) ==
    LET i == text_of_final_offset(self, final_col)
    IN  IF i # 0 /\ IsOriginText(self.text[i])
        THEN LET text == self.text[i].text
             IN  <<text.line, text.col.start + final_col - text.final_col.start>>
        ELSE <<>>

\* col_at that does not subtract the start of the merge range
col_at_without_start(self, merge_col) ==
    LET i == text_of_merge_col(self, merge_col)
    IN  IF i = 0 THEN <<>>
        ELSE IF IsOriginText(self.text[i])
        THEN LET text == self.text[i].text
             IN  <<text.final_col.start + merge_col>>
        ELSE <<>>

\* col_at: Some(final col) as <<final col>>, None as <<>>
col_at(self, merge_col) ==
    LET i == text_of_merge_col(self, merge_col)
    IN  IF i = 0 THEN <<>>
        ELSE IF IsOriginText(self.text[i])
        THEN LET text == self.text[i].text
             IN  <<text.final_col.start + merge_col - text.merge_col.start>>
        ELSE <<>>

\* the Text::Phantom arm of final_col_of_col
final_col_of_phantom(text, overflow_checks) ==
    IF text.col = 0 THEN Ok(next_final_col(text))
    ELSE usize_sub(text.final_col, 1, overflow_checks)

final_col_of_col(self, line, pre_col, overflow_checks) ==
    IF self.text = <<>> THEN Ok(pre_col)
    ELSE LET i == text_of_origin_line_col(self, line, pre_col)
         IN  IF i = 0 THEN usize_sub(self.final_text_len, 1, overflow_checks)
             ELSE IF IsPhantom(self.text[i])
             THEN final_col_of_phantom(self.text[i].text, overflow_checks)
             ELSE IF IsOriginText(self.text[i])
             THEN LET text == self.text[i].text
                  IN  Ok(text.final_col.start + pre_col - text.col.start)
             ELSE Panicked

\* usize::max
max(a, b) == IF a >= b THEN a ELSE b

min(a, b) == IF a <= b THEN a ELSE b

\* the position returned for a column in a phantom text
cursor_position_of_phantom(self, text) ==
    <<text.line, text.col, self.offset_of_line + text.merge_col>>

\* the position returned for a column in an origin text
cursor_position_of_origin(self, text, col) ==
    <<text.line, text.col.start + col - text.final_col.start,
      self.offset_of_line + text.merge_col.start + col - text.final_col.start>>

\* the position returned for a column after the last text
cursor_position_of_end(self) ==
    LET last == self.len_of_line[Len(self.len_of_line)]
    IN  <<last[1], max(last[2], 1) - 1, max(self.offset_of_line + self.origin_text_len, 1) - 1>>

cursor_position_of_final_col(self, col) ==
    LET i == text_of_final_offset(self, col)
    IN  IF i = 0 THEN Ok(cursor_position_of_end(self))
        ELSE IF IsPhantom(self.text[i])
        THEN Ok(cursor_position_of_phantom(self, self.text[i].text))
        ELSE IF IsOriginText(self.text[i])
        THEN Ok(cursor_position_of_origin(self, self.text[i].text, col))
        ELSE Panicked

\* the second component of phantom_text_of_final_col's result
offset_in_phantom(text, col, overflow_checks) ==
    usize_sub(text.final_col, col, overflow_checks)

\* phantom_text_of_final_col: Some((phantom, k)) as <<phantom, k>>, None as <<>>
phantom_text_of_final_col(self, col, overflow_checks) ==
    LET i == text_of_final_offset(self, col)
    IN  IF i = 0 THEN Ok(<<>>)
        ELSE IF IsPhantom(self.text[i])
        THEN LET k == offset_in_phantom(self.text[i].text, col, overflow_checks)
             IN  IF k.panic THEN Panicked ELSE Ok(<<self.text[i].text, k.val>>)
        ELSE Ok(<<>>)

RECURSIVE combine_with_text(_, _)
\* sub_str: text.get_unchecked(begin..end); the ranges of a row lie inside
\* the origin text the row was built from
sub_str(text, begin, end) == SubSeq(text, begin + 1, end)

\* what one text adds to the string in combine_with_text
combine_text(t, origin) ==
    IF IsPhantom(t) THEN t.text.text
    ELSE sub_str(origin, t.text.merge_col.start, t.text.merge_col.end)

\* combine_with_text (Text::Empty, which ends the loop, is never in a list)
combine_with_text(lines, origin) ==
    IF lines = <<>> THEN <<>>
    ELSE combine_with_text(SubSeq(lines, 1, Len(lines) - 1), origin) \o
         combine_text(lines[Len(lines)], origin)

\* PhantomTextMultiLine::final_line_content
final_line_content(self, origin) == combine_with_text(self.text, origin)

\* ------------------------------------------------------------ inputs
\* The phantom texts PhantomTextLine::new is given for one origin line.  new
\* is public and checks nothing about them: line is the line they belong
\* to, col and merge_col are a column of that line, final_col is still
\* unset, a fold has any length up to MaxOriginLen, and a list has them at
\* any columns in any order, overlapping or not.
PhantomTexts == {[i \in 1..n |-> "x"] : n \in {0, MaxTextLen}}

PlainSpans(kinds, line, origin_text_len) ==
    {PhantomText(kind, None, 0, line, col, col, 0, text) :
        kind \in kinds \ {LineFoldedRang},
        col \in 0..origin_text_len, text \in PhantomTexts}

AnySpans(kinds, line, origin_text_len) ==
    PlainSpans(kinds, line, origin_text_len) \cup
    {PhantomText(LineFoldedRang, nl, len, line, col, col, 0, text) :
        col \in 0..origin_text_len, len \in 0..MaxOriginLen,
        nl \in {None, line + 1, line + 2}, text \in PhantomTexts}

AnySpanLists(kinds, line, origin_text_len, n) ==
    UNION {[1..k -> AnySpans(kinds, line, origin_text_len)] : k \in 0..n}

\* The end of a fold that began on an earlier line (fixture lines 4 and 6):
\* a fold at column 0 without text that hides the start of the line.
IsFoldEnd(p) ==
    p.kind = LineFoldedRang /\ p.col = 0 /\ p.text = <<>> /\ p.next_line = None

\* the lists a line that continues a row is built from
FoldedSpanLists(kinds, line, origin_text_len, n) ==
    {s \in AnySpanLists(kinds, line, origin_text_len, n) :
        \E i \in 1..Len(s) : IsFoldEnd(s[i])}

\* The five plain kinds differ only in their sort order; the rows are built
\* with one of them and the folds, the single lines with all six.
RowKinds == {InlayHint, LineFoldedRang}

\* the first line of a row and the offset of its start in the buffer
FirstLines == {<<0, 0>>, <<1, MaxOriginLen>>}

\* the characters of origin lines, all unlike the "x" of a phantom text
OriginChars == <<"a", "b", "c", "d", "e", "f", "g", "h">>

\* the origin text of n characters: the lines of a row one after the other
Origin(n) == [i \in 1..n |-> OriginChars[((i - 1) % Len(OriginChars)) + 1]]

\* ------------------------------------------------------------ Lines
\* An f32: a number or NaN.  The widths of the model are whole numbers, which
\* `as f32` leaves as they are.
F32(val) == [nan |-> FALSE, val |-> val]

NaN == [nan |-> TRUE, val |-> 0]

\* == of f32: NaN equals nothing, itself included
f32_eq(a, b) == ~a.nan /\ ~b.nan /\ a.val = b.val

\* f32::max: the greater number, and the other number when one is NaN
f32_max(a, b) ==
    IF a.nan THEN b ELSE IF b.nan THEN a ELSE IF a.val >= b.val THEN a ELSE b

MIN_WRAPPED_WIDTH == 100

\* enum ResolvedWrap
ResolvedWrap_None == [kind |-> "None"]

ResolvedWrap_Width(width) == [kind |-> "Width", width |-> width]

\* == of ResolvedWrap: the same variant, with equal widths
ResolvedWrap_eq(a, b) ==
    /\ a.kind = b.kind
    /\ a.kind = "Width" => f32_eq(a.width, b.width)

\* enum WrapMethod; the column of WrapColumn is never read
WrapMethod_None == [kind |-> "None"]

WrapMethod_EditorWidth == [kind |-> "EditorWidth"]

WrapMethod_WrapColumn == [kind |-> "WrapColumn"]

WrapMethod_WrapWidth(width) == [kind |-> "WrapWidth", width |-> width]

\* the widths a viewport takes, one of them below MIN_WRAPPED_WIDTH
ViewportWidths == {F32(50), F32(300)}

\* the widths a style asks for
WrapWidths == {NaN}

WrapMethods ==
    {WrapMethod_None, WrapMethod_EditorWidth, WrapMethod_WrapColumn}
        \cup {WrapMethod_WrapWidth(width) : width \in WrapWidths}

\* the wrap the view effect resolves from the style and the viewport;
\* WrapColumn is todo!() and panics
resolved_wrap(wrap_method, viewport_width) ==
    CASE wrap_method.kind = "None" -> Ok(ResolvedWrap_None)
      [] wrap_method.kind = "EditorWidth" ->
            Ok(ResolvedWrap_Width(f32_max(viewport_width, F32(MIN_WRAPPED_WIDTH))))
      [] wrap_method.kind = "WrapColumn" -> Panicked
      [] wrap_method.kind = "WrapWidth" -> Ok(ResolvedWrap_Width(wrap_method.width))

\* the wraps set_wrap is called with
ResolvedWrap ==
    {resolved_wrap(wrap_method, viewport_width).val :
        wrap_method \in WrapMethods \ {WrapMethod_WrapColumn},
        viewport_width \in ViewportWidths}

\* The text of a document, as far as Lines::update reads it before it asks
\* for a text layout: rope_text.last_line().
Texts == [last_line : 0..MaxDocLine]

NoText == [last_line |-> 0]

\* Editor::new_text_layout(line) calls the function new_text_layout(doc,
\* line), whose body is todo!(): every call panics ("not yet implemented")
new_text_layout(document, line) == Panicked

\* struct Lines
Lines(wrap, origin_lines, origin_folded_lines, visual_lines, max_width, cache_rev) ==
    [wrap |-> wrap, origin_lines |-> origin_lines,
     origin_folded_lines |-> origin_folded_lines, visual_lines |-> visual_lines,
     max_width |-> max_width, cache_rev |-> cache_rev]

\* Lines::new
Lines_new == Lines(ResolvedWrap_None, <<>>, <<>>, <<>>, 0, 0)

\* Lines::clear
clear(self) ==
    [self EXCEPT !.origin_lines = <<>>, !.origin_folded_lines = <<>>,
                 !.visual_lines = <<>>, !.max_width = 0]

\* One turn of `while current_line <= last_line` in Lines::update after
\* new_text_layout has returned text_layout: line and last_line are those of
\* its phantom_text, layouts is the number of its layout lines and width the
\* width of its text.
update_step(self, text_layout) ==
    LET origin_folded_line_index == Len(self.origin_folded_lines)
        visual_line_index == Len(self.visual_lines)
    IN  [self EXCEPT
            !.max_width = IF text_layout.width > @ THEN text_layout.width ELSE @,
            !.origin_lines = @ \o
                [i \in 1..(text_layout.last_line - text_layout.line + 1) |->
                    [line_index |-> text_layout.line + i - 1]],
            !.visual_lines = @ \o
                [i \in 1..text_layout.layouts |->
                    [line_index |-> visual_line_index + i - 1,
                     origin_folded_line |-> origin_folded_line_index,
                     origin_folded_line_sub_index |-> i - 1]],
            !.origin_folded_lines = Append(@,
                [line_index |-> origin_folded_line_index,
                 origin_line_start |-> text_layout.line,
                 origin_line_end |-> text_layout.last_line])]

\* The loop of Lines::update from current_line on: the Lines it leaves,
\* whether it panicked, and the value update returns after it.  The first
\* statement of a turn is the call of new_text_layout; when that panics the
\* Lines stay as the turns before left them.
RECURSIVE update_loop(_, _, _)
update_loop(self, document, current_line) ==
    IF current_line > document.text.last_line
    THEN [panic |-> FALSE, lines |-> self, do_update |-> TRUE]
    ELSE LET text_layout == new_text_layout(document, current_line)
         IN  IF text_layout.panic
             THEN [panic |-> TRUE, lines |-> self, do_update |-> FALSE]
             ELSE update_loop(update_step(self, text_layout.val), document,
                              text_layout.val.last_line + 1)

\* Lines::update: the Lines after the call, whether it panicked and the value
\* it returned.  clear() and the store of cache_rev come before the loop, so
\* a panic in the loop leaves the Lines cleared with the new revision stored.
update(self, document) ==
    IF document.cache_rev = self.cache_rev /\ self.cache_rev # 0
    THEN [panic |-> FALSE, lines |-> self, do_update |-> FALSE]
    ELSE update_loop([clear(self) EXCEPT !.cache_rev = document.cache_rev], document, 0)

\* Lines::folded_line_of_origin_line: the index of the first folded line that
\* holds origin_line; it panics when there is none
folded_line_of_origin_line(self, origin_line) ==
    LET i == find([k \in 1..Len(self.origin_folded_lines) |->
                      /\ self.origin_folded_lines[k].origin_line_start <= origin_line
                      /\ origin_line <= self.origin_folded_lines[k].origin_line_end])
    IN  IF i = 0 THEN Panicked ELSE Ok(i)

\* Lines::set_wrap: the Lines after the call and whether it panicked.  The
\* wrap is stored before update is called.
set_wrap(self, wrap, document) ==
    IF ResolvedWrap_eq(wrap, self.wrap) THEN [panic |-> FALSE, lines |-> self]
    ELSE LET updated == update([self EXCEPT !.wrap = wrap], document)
         IN  [panic |-> updated.panic, lines |-> updated.lines]

\* ------------------------------------------------------------ reactive Id
\* The runtime tables Id reads and writes: children maps an id to the set
\* of its children, signals maps an id to its Signal, given by the set of
\* the effects subscribed to it.  next is the COUNTER of Id::next; of the
\* last call of dispose, disposed holds the ids dispose was called on, the
\* children included, and cleaned the effects observer_clean_up was called on.
Runtime(next, children, signals, disposed, cleaned) ==
    [next |-> next, children |-> children, signals |-> signals,
     disposed |-> disposed, cleaned |-> cleaned]

Runtime_new == Runtime(0, <<>>, <<>>, {}, {})

\* the runtime when a call begins
Called_on(rt) == [rt EXCEPT !.disposed = {}, !.cleaned = {}]

\* HashMap::remove
remove(map, key) == [k \in DOMAIN map \ {key} |-> map[k]]

\* HashMap::insert
insert(map, key, value) ==
    [k \in DOMAIN map \cup {key} |-> IF k = key THEN value ELSE map[k]]

\* Id::add_signal
add_signal(rt, self, signal) == [rt EXCEPT !.signals = insert(@, self, signal)]

\* Id::set_scope with scope the current scope of the runtime:
\* children.entry(scope).or_default().insert(self)
set_scope(rt, self, scope) ==
    [rt EXCEPT !.children =
        insert(@, scope, (IF scope \in DOMAIN @ THEN @[scope] ELSE {}) \cup {self})]

RECURSIVE dispose_own_entries(_, _)
RECURSIVE dispose(_, _)
RECURSIVE dispose_each(_, _)
\* dispose that removes the entries of the id and leaves its children
dispose_own_entries(rt, self) ==
    LET signal == IF self \in DOMAIN rt.signals THEN rt.signals[self] ELSE {}
    IN  [rt EXCEPT !.children = remove(@, self), !.signals = remove(@, self),
                   !.disposed = @ \cup {self}, !.cleaned = @ \cup signal]

\* `for child in children { child.dispose(); }`
dispose_each(rt, children) ==
    IF children = {} THEN rt
    ELSE LET child == CHOOSE c \in children : TRUE
         IN  dispose_each(dispose(rt, child), children \ {child})

\* Id::dispose: the entries of the id are taken out of both tables, every
\* child is disposed, and observer_clean_up is called on every subscriber of
\* the signal taken out
dispose(rt, self) ==
    LET children == IF self \in DOMAIN rt.children THEN rt.children[self] ELSE {}
        signal == IF self \in DOMAIN rt.signals THEN rt.signals[self] ELSE {}
        removed == [rt EXCEPT !.children = remove(@, self), !.signals = remove(@, self),
                              !.disposed = @ \cup {self}]
        disposed == dispose_each(removed, children)
    IN  [disposed EXCEPT !.cleaned = @ \cup signal]

\* ------------------------------------------------------------ Editor
\* scope.create_child(): a new id, made a child of scope
create_child(rt, scope) == set_scope([rt EXCEPT !.next = @ + 1], rt.next, scope)

\* scope.create_effect(f): a new id for the effect, made a child of scope
create_effect(rt, scope) == set_scope([rt EXCEPT !.next = @ + 1], rt.next, scope)

\* scope.create_rw_signal(value), scope.create_trigger(): a new id, made a
\* child of scope, with a signal that has no subscriber yet
create_rw_signal(rt, scope) ==
    add_signal(set_scope([rt EXCEPT !.next = @ + 1], rt.next, scope), rt.next, {})

\* n signals made one after the other in scope
create_rw_signals(rt, scope, n) ==
    LET ids == rt.next..rt.next + n - 1
        children == IF scope \in DOMAIN rt.children THEN rt.children[scope] ELSE {}
    IN  [rt EXCEPT !.next = @ + n,
                   !.children = insert(@, scope, children \cup ids),
                   !.signals = [k \in DOMAIN @ \cup ids |-> IF k \in ids THEN {} ELSE @[k]]]

\* signal.track() while effect runs: the effect subscribes to the signal
track(rt, signal, effect) == [rt EXCEPT !.signals[signal] = @ \cup {effect}]

\* struct Editor, as far as the lines depend on it: its scope cx, the scope
\* effects_cx of its view effects, its cursor signal, the wrap method of its
\* style es and the width of its viewport.  state is "none" before the
\* editor is made, "built" after, and "panicked" once a call on the editor
\* or its Lines has panicked: nothing is called on it after that.
Editor(state, cx, effects_cx, cursor, es, viewport) ==
    [state |-> state, cx |-> cx, effects_cx |-> effects_cx, cursor |-> cursor,
     es |-> es, viewport |-> viewport]

NoEditor == Editor("none", None, None, None, WrapMethod_None, F32(0))

\* the view effect that watches the viewport and the style: it resolves the
\* wrap and calls lines.set_wrap(wrap, ed); the Lines after it and whether
\* it panicked, in resolving the wrap or in set_wrap
wrap_effect(x, es, viewport, document) ==
    LET wrap == resolved_wrap(es, viewport)
    IN  IF wrap.panic THEN [panic |-> TRUE, lines |-> x]
        ELSE set_wrap(x, wrap.val, document)

\* create_view_effects(cx, ed), in the runtime: the effect that tracks the
\* cursor, the trigger viewport_changed_trigger, the effect that sets the
\* wrap, and the effect that tracks the trigger.  Every effect runs when it
\* is made; when the wrap effect panics the last effect is never made.
create_view_effects(rt, cx, cursor, panics) ==
    LET cursor_effect == track(create_effect(rt, cx), cursor, rt.next)
        viewport_changed_trigger == cursor_effect.next
        trigger == create_rw_signal(cursor_effect, cx)
        wrap == create_effect(trigger, cx)
        screen_lines_effect == wrap.next
    IN  IF panics THEN wrap
        ELSE track(create_effect(wrap, cx), viewport_changed_trigger, screen_lines_effect)

\* The signals ScreenLines::new(cx, viewport) makes in cx: the signal base of
\* the ScreenLines, when it is made there, or none.
ScreenLinesSignals == {0, 1}

\* Editor::new_direct(cx, doc, modal) with cx a scope just made, for a
\* document whose Lines are x: the runtime after it, the editor and the
\* Lines.  The editor's scope is a child of cx; cursor, doc, the base
\* signals of ScreenLines::new and screen_lines are signals of it,
\* effects_cx is a child of it, and so are the 15 signals and triggers of the
\* fields of the editor that follow (the two of CursorInfo::new among them).
\* The view effects are made last.
new_direct(rt, es, viewport, base, x, document) ==
    LET scope == rt.next
        cx == rt.next + 1
        cursor == rt.next + 2
        child == create_child([rt EXCEPT !.next = @ + 1], scope)
        signals == create_rw_signals(child, cx, 3 + base)
        effects_cx == signals.next
        fields == create_rw_signals(create_child(signals, cx), cx, 15)
        effect == wrap_effect(x, es, viewport, document)
    IN  [runtime |-> create_view_effects(fields, effects_cx, cursor, effect.panic),
         editor |-> Editor(IF effect.panic THEN "panicked" ELSE "built",
                           cx, effects_cx, cursor, es, viewport),
         lines |-> effect.lines]

\* Editor::recreate_view_effects: the scope of the view effects is disposed,
\* a new child of cx takes its place and the view effects are made in it
recreate_view_effects(rt, self, x, document) ==
    LET disposed == dispose(rt, self.effects_cx)
        effects_cx == disposed.next
        effect == wrap_effect(x, self.es, self.viewport, document)
    IN  [runtime |-> create_view_effects(create_child(disposed, self.cx), effects_cx,
                                         self.cursor, effect.panic),
         editor |-> [self EXCEPT !.effects_cx = effects_cx,
                                 !.state = IF effect.panic THEN "panicked" ELSE "built"],
         lines |-> effect.lines]

\* Editor::new: new_direct, then recreate_view_effects
Editor_new(rt, es, viewport, base, x, document) ==
    LET made == new_direct(rt, es, viewport, base, x, document)
    IN  IF made.editor.state = "panicked" THEN made
        ELSE recreate_view_effects(made.runtime, made.editor, made.lines, document)

\* Editor::update_doc, document being the new one: the scope of the view
\* effects is disposed and lines.update is called; when that panics nothing
\* more is done, otherwise a new child of cx is made and the view effects in
\* it
update_doc(rt, self, x, document) ==
    LET disposed == dispose(rt, self.effects_cx)
        updated == update(x, document)
        effects_cx == disposed.next
        effect == wrap_effect(updated.lines, self.es, self.viewport, document)
    IN  IF updated.panic
        THEN [runtime |-> disposed,
              editor |-> [self EXCEPT !.state = "panicked"],
              lines |-> updated.lines]
        ELSE [runtime |-> create_view_effects(create_child(disposed, self.cx),
                                              effects_cx, self.cursor, effect.panic),
              editor |-> [self EXCEPT !.effects_cx = effects_cx,
                                      !.state = IF effect.panic THEN "panicked"
                                                ELSE "built"],
              lines |-> effect.lines]

\* ------------------------------------------------------------ state
VARIABLES
    spans,   \* the phantom texts given to the PhantomTextLine::new that built pl
    pl,      \* the PhantomTextLine built last
    ml,      \* the PhantomTextMultiLine of the row
    nlines,  \* origin lines in ml (0 before PhantomTextMultiLine::new)
    pc,      \* "start", "built" (pl is not yet in ml), "row", "combined"
             \* (combine_with_text was called on pl) or "permuted" (pl was
             \* built again from the same phantom texts in another order)
    op,      \* the last query: its name, arguments and outcome
    doc,     \* the editor's document: its cache_rev and its text
    lines,   \* the Lines of the editor
    runtime, \* the reactive runtime: the ids handed out, its children and
             \* signals tables, and the effects observer_clean_up was called on
    editor   \* the Editor

vars == <<spans, pl, ml, nlines, pc, op, doc, lines, runtime, editor>>

NoOp == [name |-> "none", args |-> <<>>, res |-> Ok(<<>>)]

NoMulti == PhantomTextMultiLine(0, 0, 0, 0, 0, <<>>, <<>>)

Init ==
    /\ spans = <<>>
    /\ pl = PanicLine
    /\ ml = NoMulti
    /\ nlines = 0
    /\ pc = "start"
    /\ op = NoOp
    /\ doc = [cache_rev |-> 0, text |-> NoText]
    /\ lines = Lines_new
    /\ runtime = Runtime_new
    /\ editor = NoEditor

\* PhantomTextLine::new(line, origin_text_len, offset_of_line, phantom_texts)
NewLine(line, origin_text_len, offset_of_line, phantom_texts) ==
    /\ spans' = phantom_texts
    /\ pl' = PhantomTextLine_new(line, origin_text_len, offset_of_line, phantom_texts)
    /\ pc' = "built"
    /\ op' = NoOp
    /\ UNCHANGED <<ml, nlines, doc, lines, runtime, editor>>

\* the first line of a row is built
NewFirstLine ==
    /\ pc = "start"
    /\ \E first \in FirstLines, origin_text_len \in 0..MaxOriginLen :
         \E phantom_texts \in AnySpanLists(RowKinds, first[1], origin_text_len, MaxSpans) :
            NewLine(first[1], origin_text_len, first[2], phantom_texts)

\* PhantomTextMultiLine::new(pl)
MultiLineNew ==
    /\ pc = "built" /\ nlines = 0 /\ ~pl.panic
    /\ ml' = PhantomTextMultiLine_new(pl)
    /\ nlines' = 1
    /\ pc' = "row"
    /\ spans' = <<>>
    /\ UNCHANGED <<pl, op, doc, lines, runtime, editor>>

\* the phantom texts in the row
RowSpans == Cardinality({i \in 1..Len(ml.text) : IsPhantom(ml.text[i])})

\* the line the row continues on, pl.folded_line(), is built
NewFoldedLine ==
    /\ pc = "row" /\ op = NoOp /\ nlines < MaxLines /\ folded_line(pl) # None
    /\ \E origin_text_len \in 0..MaxOriginLen :
         \E phantom_texts \in FoldedSpanLists(RowKinds, folded_line(pl), origin_text_len,
                                  min(MaxSpans, MaxRowSpans - RowSpans)) :
            NewLine(folded_line(pl), origin_text_len,
                    ml.offset_of_line + ml.origin_text_len, phantom_texts)

\* ml.merge(pl)
Merge ==
    /\ pc = "built" /\ nlines > 0 /\ ~pl.panic
    /\ ml' = merge(ml, pl)
    /\ nlines' = nlines + 1
    /\ pc' = "row"
    /\ spans' = <<>>
    /\ UNCHANGED <<pl, op, doc, lines, runtime, editor>>

\* the arguments the queries are called with: every column of the row and
\* columns after its end
FinalCols == 0..ml.final_text_len + 1

MergeCols == 0..ml.origin_text_len

OriginLines == ml.line..ml.last_line

OriginCols == 0..MaxOriginLen

\* a query is called on the row and its outcome kept in op
Queried(name, args, res) ==
    /\ pc = "row" /\ op = NoOp
    /\ op' = [name |-> name, args |-> args, res |-> res]
    /\ UNCHANGED <<spans, pl, ml, nlines, pc, doc, lines, runtime, editor>>

CursorPositionOfFinalCol ==
    \E col \in FinalCols :
        Queried("cursor_position_of_final_col", <<col>>,
                cursor_position_of_final_col(ml, col))

OriginColOfFinalOffset ==
    \E final_col \in FinalCols :
        Queried("origin_col_of_final_offset", <<final_col>>,
                Ok(origin_col_of_final_offset(ml, final_col)))

ColAt ==
    \E merge_col \in MergeCols :
        Queried("col_at", <<merge_col>>, Ok(col_at(ml, merge_col)))

FinalColOfCol ==
    \E line \in OriginLines, pre_col \in OriginCols, overflow_checks \in BOOLEAN :
        Queried("final_col_of_col", <<line, pre_col>>,
                final_col_of_col(ml, line, pre_col, overflow_checks))

PhantomTextOfFinalCol ==
    \E col \in FinalCols, overflow_checks \in BOOLEAN :
        Queried("phantom_text_of_final_col", <<col>>,
                phantom_text_of_final_col(ml, col, overflow_checks))

FinalLineContent ==
    Queried("final_line_content", <<Origin(ml.origin_text_len)>>,
            Ok(final_line_content(ml, Origin(ml.origin_text_len))))

\* combine_with_text(pl.texts, origin) on the line built last, as the tests
\* do in check_lines_col
CombineWithText ==
    /\ pc = "built" /\ ~pl.panic
    /\ op' = [name |-> "combine_with_text", args |-> <<Origin(pl.origin_text_len)>>,
              res |-> Ok(combine_with_text(pl.texts, Origin(pl.origin_text_len)))]
    /\ pc' = "combined"
    /\ UNCHANGED <<spans, pl, ml, nlines, doc, lines, runtime, editor>>

Next ==
    \/ NewFirstLine
    \/ MultiLineNew
    \/ NewFoldedLine
    \/ Merge
    \/ CursorPositionOfFinalCol
    \/ OriginColOfFinalOffset
    \/ ColAt
    \/ FinalColOfCol
    \/ PhantomTextOfFinalCol
    \/ FinalLineContent
    \/ CombineWithText

Spec == Init /\ [][Next]_vars

\* pub fn update_final_text_len(&mut self, _len: usize) is called on the row.
\* Nothing in the editor calls it, so it is no step of Spec.
UpdateFinalTextLen ==
    /\ pc = "row" /\ op = NoOp
    /\ \E len \in FinalCols :
         /\ ml' = update_final_text_len(ml, len)
         /\ op' = [name |-> "update_final_text_len", args |-> <<len>>, res |-> Ok(<<>>)]
    /\ UNCHANGED <<spans, pl, nlines, pc, doc, lines, runtime, editor>>

\* every public method of PhantomTextMultiLine
NextPublic == Next \/ UpdateFinalTextLen

SpecPublic == Init /\ [][NextPublic]_vars

\* A single line is built from phantom texts of every kind.
NewSingleLine ==
    /\ pc = "start"
    /\ \E first \in FirstLines, origin_text_len \in 0..MaxOriginLen :
         \E phantom_texts \in AnySpanLists(PhantomTextKind, first[1], origin_text_len, MaxSpans) :
            NewLine(first[1], origin_text_len, first[2], phantom_texts)

\* PhantomTextLine::new is called again with the same phantom texts in
\* another order
NewPermuted ==
    /\ pc = "built" /\ ~pl.panic
    /\ \E f \in Permutations(1..Len(spans)) :
         LET phantom_texts == [i \in 1..Len(spans) |-> spans[f[i]]]
         IN  /\ spans' = phantom_texts
             /\ pl' = PhantomTextLine_new(pl.line, pl.origin_text_len, pl.offset_of_line,
                                          phantom_texts)
    /\ pc' = "permuted"
    /\ UNCHANGED <<ml, nlines, op, doc, lines, runtime, editor>>

NextLine == NewSingleLine \/ CombineWithText \/ NewPermuted

SpecLine == Init /\ [][NextLine]_vars

\* PhantomTextLine::new is called with any phantom texts whose columns are
\* in the line, in a build with or without overflow checks; op keeps the
\* arguments and whether the call returned
NewAnyLine ==
    /\ pc = "start"
    /\ \E first \in FirstLines, origin_text_len \in 0..MaxOriginLen, overflow_checks \in BOOLEAN :
         \E phantom_texts \in AnySpanLists(RowKinds, first[1], origin_text_len, MaxSpans) :
            LET line == PhantomTextLine_new_build(first[1], origin_text_len, first[2],
                                                  phantom_texts, overflow_checks)
            IN  /\ spans' = phantom_texts
                /\ pl' = line
                /\ op' = [name |-> "new",
                          args |-> <<first[1], origin_text_len, first[2], overflow_checks>>,
                          res |-> IF line.panic THEN Panicked ELSE Ok(<<>>)]
    /\ pc' = "built"
    /\ UNCHANGED <<ml, nlines, doc, lines, runtime, editor>>

NextAny == NewAnyLine

SpecAny == Init /\ [][NextAny]_vars

\* ------------------------------------------------------------ the lines of the editor
\* Editor::new_direct, for a new document: the editor is made and its view
\* effects with it
EditorNewDirect ==
    /\ editor.state = "none"
    /\ \E es \in WrapMethods, viewport \in ViewportWidths, base \in ScreenLinesSignals :
         LET made == new_direct(Called_on(runtime), es, viewport, base, lines, doc)
         IN  /\ runtime' = made.runtime
             /\ editor' = made.editor
             /\ lines' = made.lines
    /\ op' = NoOp
    /\ UNCHANGED <<spans, pl, ml, nlines, pc, doc>>

\* Editor::new
EditorNew ==
    /\ editor.state = "none"
    /\ \E es \in WrapMethods, viewport \in ViewportWidths, base \in ScreenLinesSignals :
         LET made == Editor_new(Called_on(runtime), es, viewport, base, lines, doc)
         IN  /\ runtime' = made.runtime
             /\ editor' = made.editor
             /\ lines' = made.lines
    /\ op' = NoOp
    /\ UNCHANGED <<spans, pl, ml, nlines, pc, doc>>

\* Editor::recreate_view_effects
RecreateViewEffects ==
    /\ editor.state = "built"
    /\ runtime.next < MaxEditorIds
    /\ LET made == recreate_view_effects(Called_on(runtime), editor, lines, doc)
       IN  /\ made.runtime.next <= MaxEditorIds
           /\ runtime' = made.runtime
           /\ editor' = made.editor
           /\ lines' = made.lines
    /\ op' = NoOp
    /\ UNCHANGED <<spans, pl, ml, nlines, pc, doc>>

\* the style or the viewport of the editor is set: the view effect that
\* watches them runs again
ViewChanged ==
    /\ editor.state = "built"
    /\ \E es \in WrapMethods, viewport \in ViewportWidths :
         LET effect == wrap_effect(lines, es, viewport, doc)
         IN  /\ editor' = [editor EXCEPT !.es = es, !.viewport = viewport,
                               !.state = IF effect.panic THEN "panicked" ELSE "built"]
             /\ lines' = effect.lines
    /\ op' = NoOp
    /\ UNCHANGED <<spans, pl, ml, nlines, pc, doc, runtime>>

\* set_preedit, clear_preedit: the document changes and its cache_rev goes up
Edit ==
    /\ editor.state = "built"
    /\ doc.cache_rev < MaxRev
    /\ \E text \in Texts : doc' = [cache_rev |-> doc.cache_rev + 1, text |-> text]
    /\ op' = NoOp
    /\ UNCHANGED <<spans, pl, ml, nlines, pc, lines, runtime, editor>>

\* update_doc: the editor is given another document, with its own cache_rev
SetDoc ==
    /\ editor.state = "built"
    /\ \E cache_rev \in 0..MaxRev, text \in Texts :
         LET document == [cache_rev |-> cache_rev, text |-> text]
             made == update_doc(Called_on(runtime), editor, lines, document)
         IN  /\ made.runtime.next <= MaxEditorIds
             /\ doc' = document
             /\ runtime' = made.runtime
             /\ editor' = made.editor
             /\ lines' = made.lines
    /\ op' = NoOp
    /\ UNCHANGED <<spans, pl, ml, nlines, pc>>

\* lines.update(editor); a panic ends the run of the editor
Update ==
    /\ editor.state = "built"
    /\ LET updated == update(lines, doc)
       IN  /\ lines' = updated.lines
           /\ editor' = [editor EXCEPT !.state = IF updated.panic THEN "panicked"
                                                 ELSE "built"]
           /\ op' = [name |-> "update", args |-> <<>>,
                     res |-> IF updated.panic THEN Panicked ELSE Ok(updated.do_update)]
    /\ UNCHANGED <<spans, pl, ml, nlines, pc, doc, runtime>>

\* lines.set_wrap(wrap, editor); a panic ends the run of the editor
SetWrap ==
    /\ editor.state = "built"
    /\ \E wrap \in ResolvedWrap :
         LET set == set_wrap(lines, wrap, doc)
         IN  /\ lines' = set.lines
             /\ editor' = [editor EXCEPT !.state = IF set.panic THEN "panicked"
                                                   ELSE "built"]
             /\ op' = [name |-> "set_wrap", args |-> <<wrap>>,
                       res |-> IF set.panic THEN Panicked ELSE Ok(<<>>)]
    /\ UNCHANGED <<spans, pl, ml, nlines, pc, doc, runtime>>

NextLines ==
    \/ EditorNewDirect
    \/ EditorNew
    \/ RecreateViewEffects
    \/ ViewChanged
    \/ Edit
    \/ SetDoc
    \/ Update
    \/ SetWrap

SpecLines == Init /\ [][NextLines]_vars

\* ------------------------------------------------------------ the reactive runtime
\* the ids handed out so far
Ids == 0..runtime.next - 1

Effects == 0..MaxEffects - 1

\* Id::next
IdNext ==
    /\ runtime.next < MaxIds
    /\ runtime' = [Called_on(runtime) EXCEPT !.next = @ + 1]
    /\ op' = [name |-> "next", args |-> <<>>, res |-> Ok(runtime.next)]
    /\ UNCHANGED <<spans, pl, ml, nlines, pc, doc, lines, editor>>

\* id.add_signal(signal), for a signal with any subscribers
IdAddSignal ==
    /\ \E id \in Ids, signal \in SUBSET Effects :
         /\ runtime' = add_signal(Called_on(runtime), id, signal)
         /\ op' = [name |-> "add_signal", args |-> <<id, signal>>, res |-> Ok(<<>>)]
    /\ UNCHANGED <<spans, pl, ml, nlines, pc, doc, lines, editor>>

\* id.set_scope(), while scope is the current scope of the runtime
IdSetScope ==
    /\ \E id \in Ids, scope \in Ids :
         /\ runtime' = set_scope(Called_on(runtime), id, scope)
         /\ op' = [name |-> "set_scope", args |-> <<id, scope>>, res |-> Ok(<<>>)]
    /\ UNCHANGED <<spans, pl, ml, nlines, pc, doc, lines, editor>>

\* id.dispose()
IdDispose ==
    /\ \E id \in Ids :
         /\ runtime' = dispose(Called_on(runtime), id)
         /\ op' = [name |-> "dispose", args |-> <<id>>, res |-> Ok(<<>>)]
    /\ UNCHANGED <<spans, pl, ml, nlines, pc, doc, lines, editor>>

NextRuntime == IdNext \/ IdAddSignal \/ IdSetScope \/ IdDispose

SpecRuntime == Init /\ [][NextRuntime]_vars

\* ------------------------------------------------------------ properties
\* the final range [FinalStart, FinalEnd) of a text
FinalStart(t) == IF IsPhantom(t) THEN t.text.final_col ELSE t.text.final_col.start

FinalEnd(t) ==
    IF IsPhantom(t) THEN t.text.final_col + Len(t.text.text) ELSE t.text.final_col.end

InFinalRange(t, f) == FinalStart(t) <= f /\ f < FinalEnd(t)

IsFold(t) == IsPhantom(t) /\ t.text.kind = LineFoldedRang

\* the merge columns [merge_col, merge_col + len) a fold consumes
InFoldMergeRange(t, m) ==
    IsFold(t) /\ t.text.merge_col <= m /\ m < t.text.merge_col + t.text.len

RECURSIVE SumTextLen(_)
SumTextLen(s) == IF s = <<>> THEN 0 ELSE Len(Head(s).text) + SumTextLen(Tail(s))

RECURSIVE SumFoldLen(_)
SumFoldLen(s) ==
    IF s = <<>> THEN 0
    ELSE (IF Head(s).kind = LineFoldedRang THEN Head(s).len ELSE 0) + SumFoldLen(Tail(s))

Built == pc = "built" /\ ~pl.panic

Called(name) == pc = "row" /\ op.name = name

\* C1: the line PhantomTextLine::new returns has final_text_len =
\* origin_text_len + the lengths of all phantom texts - the lengths all
\* folds consume.
C1_LengthConservation ==
    Built => pl.final_text_len = pl.origin_text_len + SumTextLen(spans) - SumFoldLen(spans)

\* a line with a fold that consumes more than it shows and a plain phantom text
C1_Witness ==
    /\ Built
    /\ \E i, j \in 1..Len(spans) :
         /\ spans[i].kind = LineFoldedRang /\ spans[i].len > Len(spans[i].text)
         /\ spans[j].kind # LineFoldedRang /\ Len(spans[j].text) > 0

\* the final ranges of texts, in list order, tile [0, final_text_len)
Contiguous(texts, final_text_len) ==
    /\ texts = <<>> => final_text_len = 0
    /\ texts # <<>> =>
         /\ FinalStart(texts[1]) = 0
         /\ FinalEnd(texts[Len(texts)]) = final_text_len
    /\ \A i \in 1..Len(texts) : FinalStart(texts[i]) <= FinalEnd(texts[i])
    /\ \A i \in 1..Len(texts) - 1 : FinalEnd(texts[i]) = FinalStart(texts[i + 1])

\* C2: in the line PhantomTextLine::new returns, the final ranges of the
\* texts in list order are contiguous, do not overlap and cover exactly
\* [0, final_text_len).
C2_FinalRangesContiguous == Built => Contiguous(pl.texts, pl.final_text_len)

\* C3: for every final column f inside an OriginText of the row,
\* origin_col_of_final_offset(f) is Some((l, c)) and final_col_of_col(l, c, _)
\* returns f.
C3_RoundTrip ==
    Called("final_col_of_col") =>
        \A i \in 1..Len(ml.text) : \A f \in 0..ml.final_text_len :
            (IsOriginText(ml.text[i]) /\ InFinalRange(ml.text[i], f)) =>
                /\ origin_col_of_final_offset(ml, f) # <<>>
                /\ op.args = origin_col_of_final_offset(ml, f) =>
                       (~op.res.panic /\ op.res.val = f)

\* the origin anchor of a phantom text
Anchor(p) == <<p.line, p.col, ml.offset_of_line + p.merge_col>>

\* C4: cursor_position_of_final_col(f) for f inside the final range of a
\* phantom text that is not empty returns the phantom text's anchor
\* (line, col, offset_of_line + merge_col), for every f of the range.
C4_CursorInPhantom ==
    Called("cursor_position_of_final_col") =>
        \A i \in 1..Len(ml.text) :
            (IsPhantom(ml.text[i]) /\ InFinalRange(ml.text[i], op.args[1])) =>
                op.res = Ok(Anchor(ml.text[i].text))

\* C5: for f inside an OriginText s, cursor_position_of_final_col(f) is
\* (s.line, s.col.start + d, offset_of_line + s.merge_col.start + d) with
\* d = f - s.final_col.start: after a fold the position is on the line the
\* row continues on.
C5_CursorInOriginText ==
    Called("cursor_position_of_final_col") =>
        \A i \in 1..Len(ml.text) :
            (IsOriginText(ml.text[i]) /\ InFinalRange(ml.text[i], op.args[1])) =>
                LET s == ml.text[i].text
                    d == op.args[1] - s.final_col.start
                IN  op.res = Ok(<<s.line, s.col.start + d,
                                  ml.offset_of_line + s.merge_col.start + d>>)

\* C6: cursor_position_of_final_col(f) with f >= final_text_len does not
\* fail and returns (the last merged line, max(its origin length, 1) - 1,
\* max(offset_of_line + origin_text_len, 1) - 1).
C6_CursorPastEnd ==
    (Called("cursor_position_of_final_col") /\ op.args[1] >= ml.final_text_len) =>
        op.res = Ok(<<pl.line, max(pl.origin_text_len, 1) - 1,
                      max(ml.offset_of_line + ml.origin_text_len, 1) - 1>>)

\* C7 as stated: at the exact start of a phantom text or fold,
\* final_col_of_col returns the final column just after its text.
C7_AfterPhantomText ==
    Called("final_col_of_col") =>
        \A i \in 1..Len(ml.text) :
            (IsPhantom(ml.text[i]) /\ op.args = <<ml.text[i].text.line, ml.text[i].text.col>>) =>
                op.res = Ok(FinalEnd(ml.text[i]))

\* C8 as stated: phantom_text_of_final_col(f) is Some((p, f - p.final_col))
\* exactly when f is in the final range of a phantom text p, else None.
C8_OffsetInPhantom ==
    Called("phantom_text_of_final_col") =>
        /\ \A i \in 1..Len(ml.text) :
             (IsPhantom(ml.text[i]) /\ InFinalRange(ml.text[i], op.args[1])) =>
                 op.res = Ok(<<ml.text[i].text, op.args[1] - ml.text[i].text.final_col>>)
        /\ (~\E i \in 1..Len(ml.text) :
               IsPhantom(ml.text[i]) /\ InFinalRange(ml.text[i], op.args[1])) =>
                 op.res = Ok(<<>>)

\* C9: col_at(m) is None whenever m is in the merge range a fold consumes,
\* and whenever it is Some(f), m is in the merge range of an OriginText s
\* and f = s.final_col.start + (m - s.merge_col.start).
C9_ColAt ==
    Called("col_at") =>
        /\ (\E i \in 1..Len(ml.text) : InFoldMergeRange(ml.text[i], op.args[1])) =>
               op.res = Ok(<<>>)
        /\ op.res.val # <<>> =>
               \E i \in 1..Len(ml.text) :
                   /\ IsOriginText(ml.text[i])
                   /\ Interval_contains(ml.text[i].text.merge_col, op.args[1])
                   /\ op.res.val = <<ml.text[i].text.final_col.start
                                     + (op.args[1] - ml.text[i].text.merge_col.start)>>

\* a column the fold of the continuation line has consumed, in a row whose
\* first line ends in a fold with text
C9_Witness ==
    /\ Called("col_at") /\ nlines = 2 /\ op.res = Ok(<<>>)
    /\ \E i, j \in 1..Len(ml.text) :
         /\ InFoldMergeRange(ml.text[i], op.args[1])
         /\ ml.text[i].text.line = ml.last_line /\ ml.last_line # ml.line
         /\ IsFold(ml.text[j]) /\ ml.text[j].text.line = ml.line
         /\ Len(ml.text[j].text.text) > 0

\* C10: origin_col_of_final_offset(f) is
\* Some((s.line, s.col.start + (f - s.final_col.start))) exactly when f is
\* in the final range of an OriginText s; it is None inside a phantom text
\* and for f >= final_text_len.
C10_OriginColOfFinalOffset ==
    Called("origin_col_of_final_offset") =>
        LET f == op.args[1]
            hits == {i \in 1..Len(ml.text) : IsOriginText(ml.text[i]) /\ InFinalRange(ml.text[i], f)}
        IN  /\ \A i \in hits :
                 op.res.val = <<ml.text[i].text.line,
                                ml.text[i].text.col.start + (f - ml.text[i].text.final_col.start)>>
            /\ hits = {} => op.res.val = <<>>
            /\ (\E i \in 1..Len(ml.text) : IsPhantom(ml.text[i]) /\ InFinalRange(ml.text[i], f)) =>
                   op.res.val = <<>>
            /\ f >= ml.final_text_len => op.res.val = <<>>

\* the row made from a line without characters and without phantom texts
EmptyRow == pc = "row" /\ nlines = 1 /\ ml.text = <<>> /\ ml.origin_text_len = 0

\* C11: on the row made from a line with origin_text_len = 0 and no phantom
\* texts, final_text_len is 0, no query panics, and
\* cursor_position_of_final_col and final_col_of_col return column 0 for
\* every argument.
C11_EmptyLine ==
    EmptyRow =>
        /\ ml.final_text_len = 0
        /\ ~op.res.panic
        /\ op.name = "cursor_position_of_final_col" => op.res.val[2] = 0
        /\ op.name = "final_col_of_col" => op.res.val = 0

\* the lines merged into the row, as <<line, origin length, final length>>
\* (the padding of len_of_line repeats entries)
MergedLines == {ml.len_of_line[i] : i \in 1..Len(ml.len_of_line)}

RECURSIVE SumFinalLen(_)
SumFinalLen(S) ==
    IF S = {} THEN 0
    ELSE LET e == CHOOSE x \in S : TRUE IN e[3] + SumFinalLen(S \ {e})

\* C12: the string final_line_content(origin) returns for a row, origin
\* being the merged origin lines one after the other, has length
\* final_text_len, which is the sum of the final lengths of the merged
\* lines; and so has the string combined from the texts of a single line.
C12_ContentLength ==
    /\ pc = "combined" => Len(op.res.val) = pl.final_text_len
    /\ Called("final_line_content") =>
           /\ Len(op.res.val) = ml.final_text_len
           /\ ml.final_text_len = SumFinalLen(MergedLines)

\* where texts lie in content: a phantom text at its final columns, an
\* origin text at its final columns with the characters of its merge columns
TextsInPlace(texts, origin, content) ==
    \A i \in 1..Len(texts) :
        LET t == texts[i].text
        IN  IF IsPhantom(texts[i])
            THEN /\ t.final_col + Len(t.text) <= Len(content)
                 /\ SubSeq(content, t.final_col + 1, t.final_col + Len(t.text)) = t.text
            ELSE /\ t.final_col.end <= Len(content)
                 /\ t.merge_col.end <= Len(origin)
                 /\ SubSeq(content, t.final_col.start + 1, t.final_col.end)
                      = SubSeq(origin, t.merge_col.start + 1, t.merge_col.end)

\* C13: in the string final_line_content(origin) returns, every phantom
\* text p is at [p.final_col, p.final_col + p.text.len()) and every
\* OriginText s is at [s.final_col.start, s.final_col.end) with the
\* characters origin[s.merge_col.start .. s.merge_col.end).
C13_ContentPlacement ==
    /\ pc = "combined" => TextsInPlace(pl.texts, op.args[1], op.res.val)
    /\ Called("final_line_content") => TextsInPlace(ml.text, op.args[1], op.res.val)

\* a step that is ml.merge(pl)
MergeStep == nlines > 0 /\ nlines' = nlines + 1

\* the text of pl and the text of the row are the same kind of text at the
\* same origin position
SameOrigin(t, u) ==
    /\ u.tag = t.tag
    /\ u.text.line = t.text.line
    /\ u.text.col = t.text.col
    /\ IsPhantom(t) => (u.text.kind = t.text.kind /\ u.text.text = t.text.text)

\* C14: merge is append-only: the texts that were in the row before the call
\* are an unchanged prefix of the list after it, and the texts of the merged
\* line follow them in their order.
C14_MergeAppendOnly ==
    [][MergeStep =>
          /\ Len(ml'.text) = Len(ml.text) + Len(pl.texts)
          /\ SubSeq(ml'.text, 1, Len(ml.text)) = ml.text
          /\ \A i \in 1..Len(pl.texts) : SameOrigin(pl.texts[i], ml'.text[Len(ml.text) + i])]_vars

\* a row after a merge: texts of the first line, with final columns that
\* differ from the merge columns, before the texts of the merged line
C14_Witness ==
    /\ pc = "row" /\ nlines = 2 /\ op = NoOp
    /\ pl.texts # <<>> /\ Len(ml.text) >= Len(pl.texts) + 2
    /\ ml.text[1].text.line = ml.line
    /\ ml.text[Len(ml.text)].text.line = ml.last_line
    /\ ml.final_text_len > pl.final_text_len
    /\ ml.origin_text_len > pl.origin_text_len

\* C15: once the row is constructed, no operation other than merge changes
\* its texts, origin_text_len, final_text_len or len_of_line.
C15_OnlyMergeChanges ==
    [][(nlines > 0 /\ ~MergeStep) =>
          /\ ml'.text = ml.text
          /\ ml'.origin_text_len = ml.origin_text_len
          /\ ml'.final_text_len = ml.final_text_len
          /\ ml'.len_of_line = ml.len_of_line]_vars

\* a step that builds the line again from a permutation of its phantom texts
PermutedStep == pc = "built" /\ pc' = "permuted"

\* C16 as stated: for every permutation of the same list of phantom texts
\* PhantomTextLine::new returns the same texts and the same final_text_len.
C16_PermutationIndependent ==
    [][PermutedStep =>
          (pl'.texts = pl.texts /\ pl'.final_text_len = pl.final_text_len)]_vars

\* no two different phantom texts of the list have the same merge_col and the
\* same kind (for folds: the same next_line and len)
NoTies(s) ==
    \A i, j \in 1..Len(s) :
        (/\ i # j
         /\ s[i].merge_col = s[j].merge_col
         /\ s[i].kind = s[j].kind
         /\ s[i].next_line = s[j].next_line
         /\ s[i].len = s[j].len) => s[i] = s[j]

\* C16 amended: when no two different phantom texts of the list compare equal
\* in the sort (same merge_col and same kind), PhantomTextLine::new gives for
\* every permutation of the list the same outcome: the same texts and the
\* same final_text_len.  Phantom texts that compare equal keep their input
\* order: then the texts can differ and one order can abort where another
\* returns, and the orders that return have the same final_text_len.
C16_PermutationUpToTies ==
    [][PermutedStep =>
          /\ NoTies(spans) =>
                /\ ~pl'.panic
                /\ pl'.texts = pl.texts
                /\ pl'.final_text_len = pl.final_text_len
          /\ ~pl'.panic => pl'.final_text_len = pl.final_text_len]_vars

\* a line built again from its phantom texts in the other order: two kinds at
\* one column, given first in sorted and then in reverse order
C16_Witness ==
    /\ pc = "permuted" /\ Len(spans) = 2 /\ NoTies(spans)
    /\ spans[1].merge_col = spans[2].merge_col
    /\ spans[1].kind # spans[2].kind
    /\ spans # sort_by(spans)
    /\ Len(spans[1].text) # Len(spans[2].text)
    /\ Len(pl.texts) >= 2

\* ------------------------------------------------------------ the lines of the editor: claims
\* a step of lines.update(editor)
UpdateStep == op'.name = "update"

\* self holds the lines of text with nothing left of what it held before:
\* every origin line once and in order, and folded lines and visual lines
\* for them
Rebuilt(self, text) ==
    /\ self.origin_lines = [i \in 1..(text.last_line + 1) |-> [line_index |-> i - 1]]
    /\ self.origin_folded_lines # <<>>
    /\ self.origin_folded_lines[1].origin_line_start = 0
    /\ self.origin_folded_lines[Len(self.origin_folded_lines)].origin_line_end =
           text.last_line
    /\ self.visual_lines # <<>>

\* the four collections of the lines are left as they were
LinesKept ==
    /\ lines'.origin_lines = lines.origin_lines
    /\ lines'.origin_folded_lines = lines.origin_folded_lines
    /\ lines'.visual_lines = lines.visual_lines
    /\ lines'.max_width = lines.max_width

\* C17: update returns false and leaves origin_lines, origin_folded_lines,
\* visual_lines and max_width unchanged when the document's cache_rev equals
\* the stored one, and rebuilds them all, stores the revision and returns
\* true when it differs.
C17_RebuildOnRevChange ==
    [][UpdateStep =>
        IF doc.cache_rev = lines.cache_rev
        THEN ~op'.res.panic /\ op'.res.val = FALSE /\ LinesKept
        ELSE /\ ~op'.res.panic /\ op'.res.val = TRUE
             /\ Rebuilt(lines', doc.text)
             /\ lines'.cache_rev = doc.cache_rev]_vars

\* a step of lines.set_wrap(wrap, editor)
SetWrapStep == op'.name = "set_wrap"

\* C18: set_wrap(wrap, editor) does nothing when wrap is the current wrapping
\* style; when it differs it stores the new style and origin_lines,
\* origin_folded_lines and visual_lines are cleared and rebuilt, whatever
\* the document's revision is.
C18_SetWrapRebuilds ==
    [][SetWrapStep =>
        IF op'.args[1] = lines.wrap
        THEN op'.res = Ok(<<>>) /\ lines' = lines
        ELSE /\ op'.res = Ok(<<>>)
             /\ lines'.wrap = op'.args[1]
             /\ Rebuilt(lines', doc.text)]_vars

\* ------------------------------------------------------------ segments: claims
\* the length of a range
Size(iv) == iv.end - iv.start

\* the three ranges of an OriginText have the same length
SameSizes(t) ==
    /\ Size(t.text.col) = Size(t.text.merge_col)
    /\ Size(t.text.col) = Size(t.text.final_col)

\* C19: every OriginText segment, in a PhantomTextLine and in a
\* PhantomTextMultiLine after any number of merges, has an origin range, a
\* merge range and a final range of the same length.
C19_OriginTextSameSizes ==
    /\ \A i \in 1..Len(pl.texts) : IsOriginText(pl.texts[i]) => SameSizes(pl.texts[i])
    /\ \A i \in 1..Len(ml.text) : IsOriginText(ml.text[i]) => SameSizes(ml.text[i])

\* a row of two lines holds a non-empty OriginText of its second line whose
\* three ranges start at three different columns
C19_Witness ==
    /\ pc = "row" /\ nlines = 2
    /\ \E i \in 1..Len(ml.text) :
         /\ IsOriginText(ml.text[i])
         /\ ml.text[i].text.line = ml.last_line
         /\ Size(ml.text[i].text.col) > 0
         /\ ml.text[i].text.col.start < ml.text[i].text.merge_col.start
         /\ ml.text[i].text.merge_col.start < ml.text[i].text.final_col.start

\* u is t with its merge column or range moved by origin_text_len and its
\* final column or range moved by final_text_len
Shifted(t, u, origin_text_len, final_text_len) ==
    IF IsPhantom(t)
    THEN /\ u.text.merge_col = t.text.merge_col + origin_text_len
         /\ u.text.final_col = t.text.final_col + final_text_len
    ELSE /\ u.text.merge_col.start = t.text.merge_col.start + origin_text_len
         /\ u.text.merge_col.end = t.text.merge_col.end + origin_text_len
         /\ u.text.final_col.start = t.text.final_col.start + final_text_len
         /\ u.text.final_col.end = t.text.final_col.end + final_text_len

\* C20: merge(next) shifts every appended segment of next by the lengths
\* accumulated before the call: its merge column or range by the previous
\* origin_text_len and its final column or range by the previous
\* final_text_len; the segment's origin line and origin column or range are
\* left as in next.
C20_MergeShifts ==
    [][MergeStep =>
          \A i \in 1..Len(pl.texts) :
            LET t == pl.texts[i]
                u == ml'.text[Len(ml.text) + i]
            IN  /\ u.tag = t.tag
                /\ Shifted(t, u, ml.origin_text_len, ml.final_text_len)
                /\ u.text.line = t.text.line
                /\ u.text.col = t.text.col]_vars

\* a row after a merge onto a first line whose origin and final lengths are
\* positive and differ: a phantom text and an OriginText of the merged line
\* are in the row
C20_Witness ==
    /\ pc = "row" /\ nlines = 2 /\ op = NoOp
    /\ ml.origin_text_len - pl.origin_text_len > 0
    /\ ml.final_text_len - pl.final_text_len > ml.origin_text_len - pl.origin_text_len
    /\ Len(ml.text) > Len(pl.texts)
    /\ \E i, j \in (Len(ml.text) - Len(pl.texts) + 1)..Len(ml.text) :
         /\ IsPhantom(ml.text[i]) /\ ml.text[i].text.line = pl.line
         /\ IsOriginText(ml.text[j]) /\ ml.text[j].text.line = pl.line
         /\ Size(ml.text[j].text.col) > 0

\* ------------------------------------------------------------ the table of lengths: claims
\* a step that puts the line pl into the row: PhantomTextMultiLine::new or merge
RowStep == nlines' = nlines + 1

\* the index in len_of_line of the origin line l of the row self
IndexOfLine(self, l) == l - self.line + 1

\* the entry at k is the entry of an origin line of the row that is line k
\* of the row or before it, and every entry from that line's own to k is a
\* copy of it
NearestMerged(self, k) ==
    LET e == self.len_of_line[k]
        own == IndexOfLine(self, e[1])
    IN  /\ 1 <= own /\ own <= k
        /\ \A j \in own..k : self.len_of_line[j] = e

\* C21: after new(first) and merges with strictly increasing line numbers,
\* len_of_line has last_line - line + 1 entries; the entry at index L - line
\* of a merged line L is (L, origin length of L, final length of L), and the
\* entry of a skipped line number is a copy of the entry of the nearest
\* merged line before it.
C21_LenOfLine ==
    [][RowStep =>
          /\ Len(ml'.len_of_line) = ml'.last_line - ml'.line + 1
          /\ ml'.len_of_line[IndexOfLine(ml', pl.line)] =
                 <<pl.line, pl.origin_text_len, pl.final_text_len>>
          /\ nlines > 0 =>
                 SubSeq(ml'.len_of_line, 1, Len(ml.len_of_line)) = ml.len_of_line
          /\ \A k \in 1..Len(ml'.len_of_line) : NearestMerged(ml', k)]_vars

\* a row of lines l and l + 2: the entry of the skipped line l + 1 is a copy
\* of the entry of l, and the entry of l + 2 has other lengths
C21_Witness ==
    /\ pc = "row" /\ nlines = 2 /\ ml.last_line = ml.line + 2
    /\ Len(ml.len_of_line) = 3
    /\ ml.len_of_line[2] = ml.len_of_line[1]
    /\ ml.len_of_line[1][2] # ml.len_of_line[1][3]
    /\ ml.len_of_line[3][1] = ml.last_line
    /\ ml.len_of_line[3][2] # ml.len_of_line[1][2]
    /\ ml.len_of_line[3][3] # ml.len_of_line[1][3]

\* ------------------------------------------------------------ the order of the texts: claims
\* the phantom texts among texts, in list order
RECURSIVE PhantomsOf(_)
PhantomsOf(texts) ==
    IF texts = <<>> THEN <<>>
    ELSE IF IsPhantom(Head(texts)) THEN <<Head(texts).text>> \o PhantomsOf(Tail(texts))
    ELSE PhantomsOf(Tail(texts))

\* C22: in every PhantomTextLine returned by new the phantom texts are in
\* list order with non-decreasing merge_col, and those with equal merge_col
\* in the order Ime < Placeholder < Completion < InlayHint < Diagnostic <
\* LineFoldedRang of their kinds, whatever the order of the input.
C22_SortedByColThenKind ==
    ~pl.panic =>
        LET ps == PhantomsOf(pl.texts)
        IN  /\ Len(ps) = Len(spans)
            /\ \A i \in 1..Len(ps) - 1 :
                 /\ ps[i].merge_col <= ps[i + 1].merge_col
                 /\ ps[i].merge_col = ps[i + 1].merge_col => ps[i].kind <= ps[i + 1].kind

\* a line built from two phantom texts at the same column, given with the
\* greater kind first, or from two at different columns, given with the
\* greater column first
C22_Witness ==
    /\ pc = "built" /\ ~pl.panic /\ Len(spans) = 2
    /\ \/ spans[1].merge_col = spans[2].merge_col /\ spans[1].kind > spans[2].kind
       \/ spans[1].merge_col > spans[2].merge_col
    /\ PhantomsOf(pl.texts)[1].kind = spans[2].kind
    /\ PhantomsOf(pl.texts)[1].merge_col = spans[2].merge_col

\* ------------------------------------------------------------ new on any phantom texts: claims
\* PhantomTextLine::new has been called on any phantom texts
NewCalled == pc = "built" /\ op.name = "new"

\* what a phantom text adds to the running delta: the length of its text,
\* less the columns it folds
DeltaOf(p) == Len(p.text) - (IF p.kind = LineFoldedRang THEN p.len ELSE 0)

\* the running delta before the i-th phantom text of sorted
RECURSIVE Delta(_, _)
Delta(sorted, i) ==
    IF i <= 1 THEN 0 ELSE Delta(sorted, i - 1) + DeltaOf(sorted[i - 1])

\* no span's merge_col + delta and not origin_text_len + the final delta is
\* below zero
SumsNotNegative(phantom_texts, origin_text_len) ==
    LET sorted == sort_by(phantom_texts)
    IN  /\ \A i \in 1..Len(sorted) : sorted[i].merge_col + Delta(sorted, i) >= 0
        /\ origin_text_len + Delta(sorted, Len(sorted) + 1) >= 0

\* C23: the running delta of new may be negative in mid-walk: construction
\* completes for folds whose text is shorter than the folded run as long as
\* every span's merge_col + delta and origin_text_len + the final delta are
\* >= 0, and aborts, returning no line, when one of these sums is negative.
C23_AbortsOnlyOnNegativeSum ==
    NewCalled => (pl.panic <=> ~SumsNotNegative(spans, op.args[2]))

\* the same in a build without overflow checks
C23_WithoutOverflowChecks ==
    (NewCalled /\ ~op.args[4]) => (pl.panic <=> ~SumsNotNegative(spans, op.args[2]))

\* the same for folds that end inside the line
C23_FoldsInsideLine ==
    (NewCalled /\ \A i \in 1..Len(spans) : next_origin_col(spans[i]) <= op.args[2])
        => (pl.panic <=> ~SumsNotNegative(spans, op.args[2]))

\* ------------------------------------------------------------ gaps: claims
\* the OriginTexts among texts, in list order
RECURSIVE OriginTextsOf(_)
OriginTextsOf(texts) ==
    IF texts = <<>> THEN <<>>
    ELSE IF IsOriginText(Head(texts)) THEN <<Head(texts).text>> \o OriginTextsOf(Tail(texts))
    ELSE OriginTextsOf(Tail(texts))

\* the origin columns between the phantom texts of sorted: before the first,
\* between one and the next, after the last
Gaps(sorted, origin_text_len) ==
    [i \in 1..Len(sorted) + 1 |->
        Interval(IF i = 1 THEN 0 ELSE next_origin_col(sorted[i - 1]),
                 IF i = Len(sorted) + 1 THEN origin_text_len ELSE sorted[i].col)]

\* the gaps that are not empty
RECURSIVE NonEmpty(_)
NonEmpty(gaps) ==
    IF gaps = <<>> THEN <<>>
    ELSE IF Size(Head(gaps)) > 0 THEN <<Head(gaps)>> \o NonEmpty(Tail(gaps))
    ELSE NonEmpty(Tail(gaps))

C25_ColAtOfOriginText ==
    Called("col_at") =>
        \A i \in 1..Len(ml.text) :
            (IsOriginText(ml.text[i])
                /\ Interval_contains(ml.text[i].text.merge_col, op.args[1]))
            => op.res = Ok(<<ml.text[i].text.final_col.start
                             + (op.args[1] - ml.text[i].text.merge_col.start)>>)

\* ------------------------------------------------------------ final_col_of_col: claims
\* the column is past the end of the last line of the row
PastLastLine(l, c) ==
    l = ml.last_line /\ c >= ml.len_of_line[Len(ml.len_of_line)][2]

\* C26: on a row with final_text_len > 0, final_col_of_col(l, c, _)
\* completes without panic and returns a column in [0, final_text_len) for
\* every origin line l of the row and every column c; a column past the end
\* of the last merged line gives final_text_len - 1.
C26_FinalColInRow ==
    (Called("final_col_of_col") /\ ml.final_text_len > 0) =>
        /\ ~op.res.panic
        /\ 0 <= op.res.val /\ op.res.val < ml.final_text_len
        /\ PastLastLine(op.args[1], op.args[2]) => op.res.val = ml.final_text_len - 1

\* ------------------------------------------------------------ the texts of a row: claims
\* the merge column a text starts at
MergeStart(t) == IF IsPhantom(t) THEN t.text.merge_col ELSE t.text.merge_col.start

\* C27: in a row after any sequence of merges the texts in list order have
\* non-decreasing merge starts, and their final ranges are contiguous and
\* cover exactly [0, final_text_len): every final column f < final_text_len
\* is in exactly one text.
C27_RowOrderedAndTiled ==
    pc = "row" =>
        /\ \A i \in 1..Len(ml.text) - 1 : MergeStart(ml.text[i]) <= MergeStart(ml.text[i + 1])
        /\ Contiguous(ml.text, ml.final_text_len)
        /\ \A f \in 0..ml.final_text_len - 1 :
             Cardinality({i \in 1..Len(ml.text) : InFinalRange(ml.text[i], f)}) = 1

\* ------------------------------------------------------------ the ranges of origin text: claims
\* the range lies in [0, len]
Inside(iv, len) == 0 <= iv.start /\ iv.start <= iv.end /\ iv.end <= len

\* C28: for any phantom texts whose columns are <= origin_text_len, every
\* OriginText new emits has its origin range inside [0, origin_text_len] and
\* its final range inside [0, final_text_len], and construction does not
\* fail on the subtraction origin_text_len - (end of the columns the last
\* phantom text consumes).
C28_OriginTextInsideLine ==
    NewCalled =>
        /\ pl.panic => ~SumsNotNegative(spans, op.args[2])
        /\ \A i \in 1..Len(pl.texts) :
             IsOriginText(pl.texts[i]) =>
                /\ Inside(pl.texts[i].text.col, pl.origin_text_len)
                /\ Inside(pl.texts[i].text.final_col, pl.final_text_len)

\* ------------------------------------------------------------ the rebuilt lines: claims
\* a step of lines.update(editor) that went into the rebuild loop
RebuildStep ==
    /\ op'.name = "update"
    /\ ~(doc.cache_rev = lines.cache_rev /\ lines.cache_rev # 0)

\* the folded lines of self partition the origin lines 0..last_line, in order
Partition(self, last_line) ==
    LET rows == self.origin_folded_lines
    IN  /\ rows # <<>>
        /\ rows[1].origin_line_start = 0
        /\ \A i \in 1..Len(rows) : rows[i].origin_line_start <= rows[i].origin_line_end
        /\ \A i \in 1..Len(rows) - 1 :
             rows[i + 1].origin_line_start = rows[i].origin_line_end + 1
        /\ rows[Len(rows)].origin_line_end = last_line

\* C29: when every text layout returned for a requested line starts at that
\* line and ends at a line >= it, the rebuild loop of Lines::update
\* terminates and leaves OriginFoldedLines that partition the origin lines
\* (the first starts at line 0, each next at the previous origin_line_end +
\* 1, the last ends at the document's last line), with every line
\* 0..=last_line once and in ascending order in origin_lines, with
\* visual_lines[i].line_index == i, and with folded_line_of_origin_line
\* finding the one folded line of every origin line.  No call of
\* new_text_layout returns a text layout, so the condition on the text
\* layouts returned holds of every rebuild.
C29_RebuildPartitions ==
    [][RebuildStep =>
          /\ ~op'.res.panic /\ op'.res.val = TRUE
          /\ Partition(lines', doc.text.last_line)
          /\ lines'.origin_lines =
                 [i \in 1..doc.text.last_line + 1 |-> [line_index |-> i - 1]]
          /\ \A i \in 1..Len(lines'.visual_lines) :
                 lines'.visual_lines[i].line_index = i - 1
          /\ \A l \in 0..doc.text.last_line :
                 LET found == folded_line_of_origin_line(lines', l)
                 IN  /\ ~found.panic
                     /\ \A k \in 1..Len(lines'.origin_folded_lines) :
                          (/\ lines'.origin_folded_lines[k].origin_line_start <= l
                           /\ l <= lines'.origin_folded_lines[k].origin_line_end)
                          <=> k = found.val]_vars

\* ------------------------------------------------------------ dispose: claims
\* a step of id.dispose()
DisposeStep == op'.name = "dispose"

\* the children of the ids of s in the children table of rt
ChildrenOf(rt, s) ==
    UNION {rt.children[k] : k \in s \cap DOMAIN rt.children}

\* s with every transitive child of its ids
RECURSIVE WithDescendants(_, _)
WithDescendants(rt, s) ==
    IF ChildrenOf(rt, s) \subseteq s THEN s
    ELSE WithDescendants(rt, s \cup ChildrenOf(rt, s))

\* C30: after id.dispose() returns, the runtime holds no signal entry and
\* no children entry for id nor for any transitive child of id, and
\* observer_clean_up was called on the subscribers of each signal removed;
\* the entries of the other ids are left as they were.
C30_DisposeRemovesDescendants ==
    [][DisposeStep =>
          LET gone == WithDescendants(runtime, {op'.args[1]})
          IN  /\ DOMAIN runtime'.children = DOMAIN runtime.children \ gone
              /\ DOMAIN runtime'.signals = DOMAIN runtime.signals \ gone
              /\ \A k \in DOMAIN runtime'.children : runtime'.children[k] = runtime.children[k]
              /\ \A k \in DOMAIN runtime'.signals : runtime'.signals[k] = runtime.signals[k]
              /\ runtime'.disposed = gone
              /\ runtime'.cleaned =
                     UNION {runtime.signals[k] : k \in gone \cap DOMAIN runtime.signals}]_vars

\* dispose was called on id 0 and went on to the ids 1 and 2 below it, and
\* a subscriber was cleaned up; both tables are left empty
C30_Witness ==
    /\ op.name = "dispose" /\ op.args = <<0>>
    /\ runtime.disposed = {0, 1, 2}
    /\ runtime.cleaned # {}
    /\ runtime.children = <<>> /\ runtime.signals = <<>>

====
